---- MODULE Spec2Model ----
(***************************************************************************)
(* Event manager: the attendee routes (attendee.js), the organiser routes  *)
(* (organiser.js), the schema and seed rows, and the session set-up of     *)
(* index.js, as a state machine over the four tables and the sessions.     *)
(*                                                                         *)
(* A handler that issues one SQL statement is one step, taken when the     *)
(* statement runs.  POST /attendee/book/:id issues two statements (the     *)
(* availability read, then the insert), each run from a callback, so it is *)
(* two steps, BookCheck and BookInsert, and other requests may run between *)
(* them.                                                                   *)
(***************************************************************************)
EXTENDS Integers, Sequences, FiniteSets

(***************************************************************************)
(* JavaScript values of a request body.  A string is its sequence of       *)
(* characters; text whose characters no code inspects (a title, a          *)
(* password) is written as a sequence of one token.                        *)
(***************************************************************************)
Undefined == [t |-> "undefined", s |-> << >>]

Str(chars) == [t |-> "string", s |-> chars]

\* !v for a body field: undefined and the empty string are falsy.
Falsy(v) == v.t = "undefined" \/ v.s = << >>

DigitChars == <<"0", "1", "2", "3", "4", "5", "6", "7", "8", "9">>

IsDigit(c) == \E i \in 1..10 : DigitChars[i] = c

DigitVal(c) == (CHOOSE i \in 1..10 : DigitChars[i] = c) - 1

IsSpace(c) == c = " "

RECURSIVE TrimStart(_)
TrimStart(cs) ==
    IF cs # << >> /\ IsSpace(Head(cs)) THEN TrimStart(Tail(cs)) ELSE cs

RECURSIVE TrimEnd(_)
TrimEnd(cs) ==
    IF cs # << >> /\ IsSpace(cs[Len(cs)])
    THEN TrimEnd(SubSeq(cs, 1, Len(cs) - 1))
    ELSE cs

\* String.prototype.trim
trim(cs) == TrimEnd(TrimStart(cs))

RECURSIVE DigitPrefix(_)
DigitPrefix(cs) ==
    IF cs # << >> /\ IsDigit(Head(cs))
    THEN <<Head(cs)>> \o DigitPrefix(Tail(cs))
    ELSE << >>

RECURSIVE DecimalValue(_)
DecimalValue(ds) ==
    IF ds = << >> THEN 0
    ELSE 10 * DecimalValue(SubSeq(ds, 1, Len(ds) - 1)) + DigitVal(ds[Len(ds)])

NaN == [nan |-> TRUE, n |-> 0]

Num(k) == [nan |-> FALSE, n |-> k]

\* parseInt(v): the argument as a string (undefined reads "undefined"), leading
\* blanks skipped, an optional sign, then the longest run of digits; NaN when
\* there is no digit.
parseInt(v) ==
    LET cs     == IF v.t = "undefined" THEN <<"u", "n", "d", "e", "f", "i", "n", "e", "d">>
                  ELSE TrimStart(v.s)
        signed == cs # << >> /\ Head(cs) \in {"-", "+"}
        neg    == cs # << >> /\ Head(cs) = "-"
        ds     == DigitPrefix(IF signed THEN Tail(cs) ELSE cs)
    IN  IF ds = << >> THEN NaN
        ELSE Num(IF neg THEN 0 - DecimalValue(ds) ELSE DecimalValue(ds))

\* parseInt(v) || 0 : NaN and 0 are falsy.
parseIntOrZero(v) ==
    LET p == parseInt(v) IN IF p.nan \/ p.n = 0 THEN 0 ELSE p.n

\* (v || 0) bound to an INTEGER or REAL column: absent or empty gives 0, numeric
\* text is stored as its number (SQLite column affinity).
numericOrZero(v) == IF Falsy(v) THEN 0 ELSE DecimalValue(DigitPrefix(v.s))

(***************************************************************************)
(* Dates.  A date string is a sequence of the pieces the helpers look at:  *)
(* the day "2025-07-15" (10 characters), a separator "T" or " ", the time  *)
(* "10:00" (5 characters) and the seconds ":00" (3 characters).            *)
(***************************************************************************)
PieceLen(p) == IF p \in {"T", " "} THEN 1
               ELSE IF p = ":00" THEN 3
               ELSE IF p \in {"09:00", "10:00", "14:00"} THEN 5
               ELSE 10

RECURSIVE length(_)
length(ps) == IF ps = << >> THEN 0 ELSE PieceLen(Head(ps)) + length(Tail(ps))

includes(ps, p) == \E i \in 1..Len(ps) : ps[i] = p

\* String.prototype.replace with a string pattern: the first occurrence only.
replace(ps, p, q) ==
    IF ~includes(ps, p) THEN ps
    ELSE LET i == CHOOSE k \in 1..Len(ps) :
                      ps[k] = p /\ \A j \in 1..(k - 1) : ps[j] # p
         IN  [ps EXCEPT ![i] = q]

formatDateForDatabase(d) ==
    IF Falsy(d) THEN d
    ELSE IF includes(d.s, " ") /\ length(d.s) = 19 THEN d
    ELSE IF includes(d.s, "T") THEN Str(replace(d.s, "T", " ") \o <<":00">>)
    ELSE d

(***************************************************************************)
(* Bounds of the model and the inputs requests are drawn from.             *)
(***************************************************************************)
\* Largest event_id the model lets AUTOINCREMENT hand out (three are seeded).
MaxEventId == 4

\* Largest booking_id the model lets AUTOINCREMENT hand out (two are seeded).
MaxBookingId == 4

\* The :id of a request: every id that can exist, and one that never does.
EventIdParams == 1..(MaxEventId + 1)

\* Browser sessions that talk to the organiser routes.
Clients == {"c1", "c2"}

\* Booking requests that can be in flight at the same time.
Attendees == {"a1", "a2"}

\* The body of POST create-event and POST edit-event.
EventBodies ==
    { [title |-> Str(<<"Small class">>), description |-> Str(<<"Two mats">>),
       event_date |-> Str(<<"2025-07-15", "T", "10:00">>),
       full_price_tickets |-> Str(<<"2">>), full_price_cost |-> Str(<<"3">>),
       concession_tickets |-> Str(<<"1">>), concession_cost |-> Str(<<"2">>)],
      [title |-> Str(<<"Small class">>), description |-> Str(<<"Two mats">>),
       event_date |-> Str(<<"2025-07-15", " ", "10:00", ":00">>),
       full_price_tickets |-> Str(<<"1">>), full_price_cost |-> Undefined,
       concession_tickets |-> Undefined, concession_cost |-> Str(<< >>)],
      [title |-> Str(<< >>), description |-> Str(<<"Two mats">>),
       event_date |-> Str(<<"2025-07-15", "T", "10:00">>),
       full_price_tickets |-> Str(<<"2">>), full_price_cost |-> Str(<<"3">>),
       concession_tickets |-> Str(<<"1">>), concession_cost |-> Str(<<"2">>)],
      [title |-> Str(<<"Small class">>), description |-> Str(<<"Two mats">>),
       event_date |-> Undefined,
       full_price_tickets |-> Str(<<"2">>), full_price_cost |-> Str(<<"3">>),
       concession_tickets |-> Str(<<"1">>), concession_cost |-> Str(<<"2">>)] }

\* The body of POST settings.
SettingsBodies ==
    { [site_name |-> Str(<<"Yoga Hub">>), site_description |-> Str(<<"Classes">>)],
      [site_name |-> Str(<<"Yoga Hub">>), site_description |-> Str(<< >>)],
      [site_name |-> Undefined, site_description |-> Str(<<"Classes">>)] }

\* req.body.organiser_id of a login: the two values the form offers, an id
\* without a row, and another spelling of 1.
OrganiserIdInputs ==
    {Str(<<"1">>), Str(<<"2">>), Str(<<"3">>), Str(<<"0", "1">>)}

\* req.body.password of a login.
PasswordInputs ==
    {Undefined, Str(<<"sarah_admin_2025">>), Str(<<"mike_coordinator_2025">>)}

\* process.env at start-up: both organiser passwords set, or neither.
PasswordConfigs ==
    { [i \in {1, 2} |-> IF i = 1 THEN Str(<<"sarah_admin_2025">>)
                                 ELSE Str(<<"mike_coordinator_2025">>)],
      [i \in {1, 2} |-> Undefined] }

(***************************************************************************)
(* The seed rows of the schema script.                                     *)
(***************************************************************************)
organisers ==
    [i \in {1, 2} |-> [organiser_id |-> i,
                       name |-> IF i = 1 THEN "Sarah Johnson" ELSE "Mike Chen"]]

\* The values CURRENT_TIMESTAMP takes, one per second, from the second the
\* schema script ran.
Clock == <<"12:00:00", "12:00:01">>

SeedSettings ==
    [i \in {1} |-> [site_name |-> <<"Fun Yoga">>,
                    site_description |-> <<"All kinds of yoga for all ages">>]]

SeedEvent(title, description, day, time, full, fullCost, conc, concCost, status, org) ==
    [title |-> title, description |-> description,
     event_date |-> <<day, " ", time, ":00">>,
     full_price_tickets |-> full, full_price_cost |-> fullCost,
     concession_tickets |-> conc, concession_cost |-> concCost,
     status |-> status, organiser_id |-> org,
     created_date |-> Clock[1],
     published_date |-> IF status = "published" THEN Clock[1] ELSE "NULL",
     last_modified |-> Clock[1]]

SeedEvents ==
    [i \in {1, 2, 3} |->
        IF i = 1 THEN SeedEvent(<<"Yoga Kids Workshop">>,
                                <<"Beginner friendly kids yoga session">>,
                                "2025-07-15", "10:00", 20, 25, 10, 15, "published", 1)
        ELSE IF i = 2 THEN SeedEvent(<<"Yoga Adults Workshop">>,
                                     <<"Beginner friendly adults yoga session">>,
                                     "2025-07-20", "14:00", 30, 15, 15, 10, "draft", 2)
        ELSE SeedEvent(<<"Puppy Yoga">>, <<"Yoga with cute puppies">>,
                       "2025-07-10", "09:00", 15, 40, 5, 30, "published", 1)]

SeedBookings ==
    [i \in {1, 2} |->
        IF i = 1 THEN [event_id |-> 1, attendee_name |-> <<"Alice Benson">>,
                       full_price_tickets_booked |-> 2,
                       concession_tickets_booked |-> 1, total_cost |-> 65]
        ELSE [event_id |-> 3, attendee_name |-> <<"Bob Carrey">>,
              full_price_tickets_booked |-> 1,
              concession_tickets_booked |-> 0, total_cost |-> 40]]

(***************************************************************************)
(* State.                                                                  *)
(***************************************************************************)
VARIABLES
    events,               \* table events: event_id -> row
    bookings,             \* table bookings: booking_id -> row
    site_settings,        \* table site_settings: setting_id -> row
    sqlite_sequence,      \* AUTOINCREMENT: the largest id each table has handed out
    sessions,             \* express-session: client -> req.session
    ORGANISER_PASSWORDS,  \* organiser.js: organiser id -> configured secret
    now,                  \* the second the clock shows: an index of Clock
    book,                 \* attendee -> its booking request between read and insert
    res                   \* the response of the request handled last

vars == <<events, bookings, site_settings, sqlite_sequence, sessions,
          ORGANISER_PASSWORDS, now, book, res>>

db == <<events, bookings, site_settings, sqlite_sequence>>

\* A session nothing has been stored in (saveUninitialized: false).
NoSession == [isAuthenticated |-> FALSE, organiserId |-> 0, organiserName |-> ""]

Idle == [pc |-> "idle"]

NoData == [none |-> TRUE]

\* CURRENT_TIMESTAMP in a statement that runs now.
CURRENT_TIMESTAMP == Clock[now]

Response(route, status, body, data) ==
    [route |-> route, status |-> status, body |-> body, data |-> data]

Init ==
    /\ events = SeedEvents
    /\ bookings = SeedBookings
    /\ site_settings = SeedSettings
    /\ sqlite_sequence = [events |-> 3, bookings |-> 2, site_settings |-> 1]
    /\ sessions = [c \in Clients |-> NoSession]
    /\ ORGANISER_PASSWORDS \in PasswordConfigs
    /\ now = 1
    /\ book = [a \in Attendees |-> Idle]
    /\ res = Response("none", 0, "", NoData)

(***************************************************************************)
(* Queries of the attendee routes.                                         *)
(***************************************************************************)
BookingsOf(eventId) == {b \in DOMAIN bookings : bookings[b].event_id = eventId}

RECURSIVE SumOver(_, _)
SumOver(ids, column) ==
    IF ids = {} THEN 0
    ELSE LET b == CHOOSE x \in ids : TRUE
         IN  bookings[b][column] + SumOver(ids \ {b}, column)

\* COALESCE(SUM(b.full_price_tickets_booked), 0) over the LEFT JOIN.
full_booked(eventId) == SumOver(BookingsOf(eventId), "full_price_tickets_booked")

concession_booked(eventId) == SumOver(BookingsOf(eventId), "concession_tickets_booked")

\* WHERE e.status = 'published'
IsPublished(eventId) ==
    eventId \in DOMAIN events /\ events[eventId].status = "published"

\* One result row: the event's columns and the two totals.
EventRow(eventId) ==
    [event_id |-> eventId,
     full_price_tickets |-> events[eventId].full_price_tickets,
     full_price_cost |-> events[eventId].full_price_cost,
     concession_tickets |-> events[eventId].concession_tickets,
     concession_cost |-> events[eventId].concession_cost,
     status |-> events[eventId].status,
     full_booked |-> full_booked(eventId),
     concession_booked |-> concession_booked(eventId)]

\* eventsQuery of GET /attendee/: the published events with their totals.
eventsQuery == {EventRow(e) : e \in {x \in DOMAIN events : IsPublished(x)}}

\* A slip: the status filter is lost.
eventQueryAnyStatus(eventId) == IF eventId \in DOMAIN events THEN {EventRow(eventId)} ELSE {}

\* eventQuery of GET /attendee/event/:id : no row, or the one row.
eventQuery(eventId) == IF IsPublished(eventId) THEN {EventRow(eventId)} ELSE {}

\* A slip: the join condition is lost, and the totals run over every booking.
checkQueryWithoutJoin(eventId) ==
    IF IsPublished(eventId)
    THEN {[EventRow(eventId) EXCEPT
             !.full_booked = SumOver(DOMAIN bookings, "full_price_tickets_booked"),
             !.concession_booked = SumOver(DOMAIN bookings, "concession_tickets_booked")]}
    ELSE {}

\* checkQuery of POST /attendee/book/:id : the same statement as eventQuery.
checkQuery(eventId) == IF IsPublished(eventId) THEN {EventRow(eventId)} ELSE {}

\* A slip: the tickets already booked are not subtracted.
fullAvailableIgnoringBooked(event) == event.full_price_tickets

\* const fullAvailable = event.full_price_tickets - event.full_booked
fullAvailable(event) == event.full_price_tickets - event.full_booked

\* A concession availability that subtracts the full-price tickets booked.
concessionAvailableLessFullBooked(event) == event.concession_tickets - event.full_booked

concessionAvailable(event) == event.concession_tickets - event.concession_booked

\* An availability validation that looks at the full-price tier only.
NotEnoughFullPriceTickets(fullWanted, concessionWanted, event) ==
    fullWanted > fullAvailable(event)

\* An availability validation that looks only at the tiers the request asks
\* tickets of.
NotEnoughOfRequestedTiers(fullWanted, concessionWanted, event) ==
    \/ fullWanted > 0 /\ fullWanted > fullAvailable(event)
    \/ concessionWanted > 0 /\ concessionWanted > concessionAvailable(event)

\* The availability validation of the booking route: TRUE when the request is refused.
NotEnoughTickets(fullWanted, concessionWanted, event) ==
    fullWanted > fullAvailable(event) \/ concessionWanted > concessionAvailable(event)

\* A name validation that does not trim.
NameAbsent(attendee_name) == Falsy(attendee_name)

\* Input validation 1 of the booking route: TRUE when the name is refused.
NameMissing(attendee_name) == Falsy(attendee_name) \/ trim(attendee_name.s) = << >>

\* Input validation 3 of the booking route: TRUE when the request is refused.
NoTicketsSelected(fullWanted, concessionWanted) == fullWanted + concessionWanted = 0

\* A total that charges the full-price tickets only.
totalCostOfFullPrice(fullWanted, concessionWanted, event) ==
    fullWanted * event.full_price_cost

\* const totalCost = (fullWanted * full_price_cost) + (concessionWanted * concession_cost)
totalCost(fullWanted, concessionWanted, event) ==
    (fullWanted * event.full_price_cost) + (concessionWanted * event.concession_cost)

\* A database opened without PRAGMA foreign_keys=ON: the constraint is not
\* enforced.
ForeignKeyOff(eventId) == TRUE

\* FOREIGN KEY (event_id) REFERENCES events(event_id), with PRAGMA foreign_keys=ON.
ForeignKeyHolds(eventId) == eventId \in DOMAIN events

(***************************************************************************)
(* Attendee routes.                                                        *)
(***************************************************************************)
\* GET /attendee/
AttendeeHome ==
    /\ res' = Response("GET /attendee/", 200, "attendee-home.ejs",
                       [events |-> eventsQuery])
    /\ UNCHANGED <<db, sessions, ORGANISER_PASSWORDS, now, book>>

\* GET /attendee/event/:id
AttendeeEvent(eventId) ==
    /\ LET rows == eventQuery(eventId)
       IN  IF rows = {}
           THEN res' = Response("GET /attendee/event/:id", 404,
                                "Event not found or not published", NoData)
           ELSE LET event == CHOOSE r \in rows : TRUE
                IN  res' = Response("GET /attendee/event/:id", 200, "attendee-event.ejs",
                                    [event |-> event,
                                     full_available |-> fullAvailable(event),
                                     concession_available |-> concessionAvailable(event)])
    /\ UNCHANGED <<db, sessions, ORGANISER_PASSWORDS, now, book>>

\* The booking route with the return of its availability validation left
\* out: the refusal is sent and the handler goes on to the insert.
BookCheckWithoutReturn(a, eventId, body) ==
    /\ book[a].pc = "idle"
    /\ LET attendee_name    == body.attendee_name
           fullWanted       == parseIntOrZero(body.full_price_tickets)
           concessionWanted == parseIntOrZero(body.concession_tickets)
           rows             == checkQuery(eventId)
           event            == CHOOSE r \in rows : TRUE
           pending          == [pc |-> "insert",
                                eventId |-> eventId,
                                attendee_name |-> attendee_name,
                                fullWanted |-> fullWanted,
                                concessionWanted |-> concessionWanted,
                                totalCost |-> totalCost(fullWanted, concessionWanted, event),
                                event |-> event]
       IN  IF NameMissing(attendee_name)
           THEN /\ res' = Response("POST /attendee/book/:id", 400,
                                   "Attendee name is required", NoData)
                /\ UNCHANGED book
           ELSE IF NoTicketsSelected(fullWanted, concessionWanted)
           THEN /\ res' = Response("POST /attendee/book/:id", 400,
                                   "Please select at least one ticket", NoData)
                /\ UNCHANGED book
           ELSE IF rows = {}
           THEN /\ res' = Response("POST /attendee/book/:id", 404,
                                   "Event not found", NoData)
                /\ UNCHANGED book
           ELSE IF NotEnoughTickets(fullWanted, concessionWanted, event)
           THEN /\ res' = Response("POST /attendee/book/:id", 400,
                                   "Not enough tickets available", NoData)
                /\ book' = [book EXCEPT ![a] = pending]
           ELSE /\ book' = [book EXCEPT ![a] = pending]
                /\ UNCHANGED res
    /\ UNCHANGED <<db, sessions, ORGANISER_PASSWORDS, now>>

\* POST /attendee/book/:id, up to the callback of the availability read: the
\* validations, checkQuery, the availability validation and the cost.
BookCheck(a, eventId, body) ==
    /\ book[a].pc = "idle"
    /\ LET attendee_name    == body.attendee_name
           fullWanted       == parseIntOrZero(body.full_price_tickets)
           concessionWanted == parseIntOrZero(body.concession_tickets)
           rows             == checkQuery(eventId)
           event            == CHOOSE r \in rows : TRUE
       IN  IF NameMissing(attendee_name)
           THEN /\ res' = Response("POST /attendee/book/:id", 400,
                                   "Attendee name is required", NoData)
                /\ UNCHANGED book
           ELSE IF NoTicketsSelected(fullWanted, concessionWanted)
           THEN /\ res' = Response("POST /attendee/book/:id", 400,
                                   "Please select at least one ticket", NoData)
                /\ UNCHANGED book
           ELSE IF rows = {}
           THEN /\ res' = Response("POST /attendee/book/:id", 404,
                                   "Event not found", NoData)
                /\ UNCHANGED book
           ELSE IF NotEnoughTickets(fullWanted, concessionWanted, event)
           THEN /\ res' = Response("POST /attendee/book/:id", 400,
                                   "Not enough tickets available", NoData)
                /\ UNCHANGED book
           ELSE /\ book' = [book EXCEPT ![a] =
                              [pc |-> "insert",
                               eventId |-> eventId,
                               attendee_name |-> attendee_name,
                               fullWanted |-> fullWanted,
                               concessionWanted |-> concessionWanted,
                               totalCost |-> totalCost(fullWanted, concessionWanted, event),
                               event |-> event]]
                /\ UNCHANGED res
    /\ UNCHANGED <<db, sessions, ORGANISER_PASSWORDS, now>>

\* A booking row stored under the first event whatever the request named.
BookingRowOfFirstEvent(r) ==
    [event_id |-> 1,
     attendee_name |-> trim(r.attendee_name.s),
     full_price_tickets_booked |-> r.fullWanted,
     concession_tickets_booked |-> r.concessionWanted,
     total_cost |-> r.totalCost]

\* The row bookingQuery inserts for a request.
BookingRow(r) ==
    [event_id |-> r.eventId,
     attendee_name |-> trim(r.attendee_name.s),
     full_price_tickets_booked |-> r.fullWanted,
     concession_tickets_booked |-> r.concessionWanted,
     total_cost |-> r.totalCost]

\* POST /attendee/book/:id, from the insert to the response.
BookInsert(a) ==
    /\ book[a].pc = "insert"
    /\ LET r == book[a]
           lastID == sqlite_sequence.bookings + 1
       IN  IF ForeignKeyHolds(r.eventId)
           THEN /\ lastID <= MaxBookingId
                /\ bookings' = [b \in DOMAIN bookings \cup {lastID} |->
                                   IF b = lastID THEN BookingRow(r) ELSE bookings[b]]
                /\ sqlite_sequence' = [sqlite_sequence EXCEPT !.bookings = lastID]
                /\ res' = Response("POST /attendee/book/:id", 200,
                                   "booking-confirmation.ejs",
                                   [event |-> r.event,
                                    booking |-> [attendee_name |-> trim(r.attendee_name.s),
                                                 full_price_tickets_booked |-> r.fullWanted,
                                                 concession_tickets_booked |-> r.concessionWanted,
                                                 total_cost |-> r.totalCost]])
           ELSE /\ res' = Response("POST /attendee/book/:id", 500, "next(err)", NoData)
                /\ UNCHANGED <<bookings, sqlite_sequence>>
    /\ book' = [book EXCEPT ![a] = Idle]
    /\ UNCHANGED <<events, site_settings, sessions, ORGANISER_PASSWORDS, now>>

(***************************************************************************)
(* Organiser routes.                                                       *)
(***************************************************************************)
\* A gate that lets every request through.
requireAuthSkipped(session) == TRUE

\* The test of the requireAuth middleware on req.session.
requireAuth(session) == session.isAuthenticated /\ session.organiserId # 0

RedirectToLogin(route) == Response(route, 302, "/organiser/login", NoData)

RECURSIVE substring(_, _)
\* dateString.substring(0, n), cut between pieces.
substring(ps, n) ==
    IF ps = << >> \/ PieceLen(Head(ps)) > n THEN << >>
    ELSE <<Head(ps)>> \o substring(Tail(ps), n - PieceLen(Head(ps)))

formatDateForInput(ps) ==
    IF ps = << >> THEN << >>
    ELSE IF includes(ps, "T") /\ length(ps) = 16 THEN ps
    ELSE IF includes(ps, " ") THEN replace(substring(ps, 16), " ", "T")
    ELSE ps

\* GET /organiser/login
GetLogin(c) ==
    /\ res' = IF sessions[c].isAuthenticated
              THEN Response("GET /organiser/login", 302, "/organiser", NoData)
              ELSE Response("GET /organiser/login", 200, "organiser-login.ejs",
                            [error |-> "null"])
    /\ UNCHANGED <<db, sessions, ORGANISER_PASSWORDS, now, book>>

\* A text value compared with an INTEGER column (numeric affinity): text that
\* is an integer literal, blanks around it allowed, compares as its number.
NumericAffinity(v) ==
    LET cs     == trim(v.s)
        signed == cs # << >> /\ Head(cs) \in {"-", "+"}
        ds     == IF signed THEN Tail(cs) ELSE cs
    IN  IF v.t = "undefined" \/ ds = << >> \/ DigitPrefix(ds) # ds THEN NaN
        ELSE Num(IF Head(cs) = "-" THEN 0 - DecimalValue(ds) ELSE DecimalValue(ds))

\* SELECT * FROM organisers WHERE organiser_id = ?
organiserQuery(organiser_id) ==
    {i \in DOMAIN organisers :
        NumericAffinity(organiser_id) = Num(organisers[i].organiser_id)}

\* ORGANISER_PASSWORDS[organiser_id]: the object has the keys "1" and "2", and
\* any other key reads undefined.
expectedPassword(organiser_id) ==
    LET keys == {i \in DOMAIN ORGANISER_PASSWORDS :
                    organiser_id = Str(<<DigitChars[i + 1]>>)}
    IN  IF keys = {} THEN Undefined
        ELSE ORGANISER_PASSWORDS[CHOOSE i \in keys : TRUE]

\* password === expectedPassword
PasswordMatches(password, organiser_id) == password = expectedPassword(organiser_id)

\* POST /organiser/login
Login(c, organiser_id, password) ==
    /\ IF organiserQuery(organiser_id) = {}
       THEN /\ res' = Response("POST /organiser/login", 200, "organiser-login.ejs",
                               [error |-> "Invalid organiser selected."])
            /\ UNCHANGED sessions
       ELSE IF PasswordMatches(password, organiser_id)
       THEN LET organiser == organisers[CHOOSE i \in organiserQuery(organiser_id) : TRUE]
            IN  sessions' = [sessions EXCEPT ![c] =
                               [isAuthenticated |-> TRUE,
                                organiserId |-> organiser.organiser_id,
                                organiserName |-> organiser.name]]
            /\ res' = Response("POST /organiser/login", 302, "/organiser", NoData)
       ELSE /\ res' = Response("POST /organiser/login", 200, "organiser-login.ejs",
                               [error |-> "Incorrect password. Please try again."])
            /\ UNCHANGED sessions
    /\ UNCHANGED <<db, ORGANISER_PASSWORDS, now, book>>

\* A logout that answers without destroying the session.
LogoutKeepingSession(c) ==
    /\ res' = Response("POST /organiser/logout", 302, "/", NoData)
    /\ UNCHANGED <<db, sessions, ORGANISER_PASSWORDS, now, book>>

\* POST /organiser/logout: req.session.destroy
Logout(c) ==
    /\ sessions' = [sessions EXCEPT ![c] = NoSession]
    /\ res' = Response("POST /organiser/logout", 302, "/", NoData)
    /\ UNCHANGED <<db, ORGANISER_PASSWORDS, now, book>>

\* GET /organiser/
OrganiserHome(c) ==
    /\ res' = IF ~requireAuth(sessions[c]) THEN RedirectToLogin("GET /organiser/")
              ELSE Response("GET /organiser/", 200, "organiser-home.ejs",
                            [currentOrganiser |-> sessions[c].organiserId,
                             publishedEvents |-> eventsQuery,
                             draftEvents |-> {e \in DOMAIN events :
                                                 events[e].status = "draft"}])
    /\ UNCHANGED <<db, sessions, ORGANISER_PASSWORDS, now, book>>

\* GET /organiser/settings
GetSettings(c) ==
    /\ res' = IF ~requireAuth(sessions[c]) THEN RedirectToLogin("GET /organiser/settings")
              ELSE Response("GET /organiser/settings", 200, "site-settings.ejs",
                            [settings |-> site_settings])
    /\ UNCHANGED <<db, sessions, ORGANISER_PASSWORDS, now, book>>

\* A settings insert that takes the next id of the table.
nextSettingId == sqlite_sequence.site_settings + 1

\* The setting_id of VALUES (1, ?, ?).
setting_id == 1

\* A settings row that keeps the description stored before.
settingsQueryKeepingDescription(body) ==
    [site_name |-> body.site_name.s,
     site_description |-> site_settings[setting_id].site_description]

\* The columns INSERT OR REPLACE INTO site_settings stores from the body.
settingsQuery(body) ==
    [site_name |-> body.site_name.s, site_description |-> body.site_description.s]

\* POST /organiser/settings
PostSettings(c, body) ==
    /\ IF ~requireAuth(sessions[c])
       THEN /\ res' = RedirectToLogin("POST /organiser/settings")
            /\ UNCHANGED site_settings
       ELSE IF Falsy(body.site_name) \/ Falsy(body.site_description)
       THEN /\ res' = Response("POST /organiser/settings", 400,
                               "All fields are required", NoData)
            /\ UNCHANGED site_settings
       ELSE \* INSERT OR REPLACE ... VALUES (1, ?, ?)
            /\ site_settings' = [i \in DOMAIN site_settings \cup {setting_id} |->
                                    IF i = setting_id THEN settingsQuery(body)
                                    ELSE site_settings[i]]
            /\ res' = Response("POST /organiser/settings", 302, "/organiser", NoData)
    /\ UNCHANGED <<events, bookings, sqlite_sequence, sessions, ORGANISER_PASSWORDS, now, book>>

\* GET /organiser/create-event
GetCreateEvent(c) ==
    /\ res' = IF ~requireAuth(sessions[c]) THEN RedirectToLogin("GET /organiser/create-event")
              ELSE Response("GET /organiser/create-event", 200, "edit-event.ejs", NoData)
    /\ UNCHANGED <<db, sessions, ORGANISER_PASSWORDS, now, book>>

\* The validation shared by create-event and edit-event: TRUE when refused.
RequiredMissing(body) ==
    Falsy(body.title) \/ Falsy(body.description) \/ Falsy(body.event_date)

\* A create-event insert that stores the new event as published.
createQueryAsPublished(body, organiserId) ==
    [title |-> body.title.s,
     description |-> body.description.s,
     event_date |-> formatDateForDatabase(body.event_date).s,
     full_price_tickets |-> numericOrZero(body.full_price_tickets),
     full_price_cost |-> numericOrZero(body.full_price_cost),
     concession_tickets |-> numericOrZero(body.concession_tickets),
     concession_cost |-> numericOrZero(body.concession_cost),
     status |-> "published",
     organiser_id |-> organiserId,
     created_date |-> CURRENT_TIMESTAMP,
     published_date |-> "NULL",
     last_modified |-> CURRENT_TIMESTAMP]

\* The row INSERT INTO events ... VALUES (?, ?, ?, ?, ?, ?, ?, 'draft', ?) stores,
\* the columns it does not name taking their defaults.
createQuery(body, organiserId) ==
    [title |-> body.title.s,
     description |-> body.description.s,
     event_date |-> formatDateForDatabase(body.event_date).s,
     full_price_tickets |-> numericOrZero(body.full_price_tickets),
     full_price_cost |-> numericOrZero(body.full_price_cost),
     concession_tickets |-> numericOrZero(body.concession_tickets),
     concession_cost |-> numericOrZero(body.concession_cost),
     status |-> "draft",
     organiser_id |-> organiserId,
     created_date |-> CURRENT_TIMESTAMP,
     published_date |-> "NULL",
     last_modified |-> CURRENT_TIMESTAMP]

\* POST /organiser/create-event
CreateEvent(c, body) ==
    /\ IF ~requireAuth(sessions[c])
       THEN /\ res' = RedirectToLogin("POST /organiser/create-event")
            /\ UNCHANGED <<events, sqlite_sequence>>
       ELSE IF RequiredMissing(body)
       THEN /\ res' = Response("POST /organiser/create-event", 400,
                               "Title, description, and event date are required", NoData)
            /\ UNCHANGED <<events, sqlite_sequence>>
       ELSE LET lastID == sqlite_sequence.events + 1
                row == createQuery(body, sessions[c].organiserId)
            IN  /\ lastID <= MaxEventId
                /\ events' = [e \in DOMAIN events \cup {lastID} |->
                                 IF e = lastID THEN row ELSE events[e]]
                /\ sqlite_sequence' = [sqlite_sequence EXCEPT !.events = lastID]
                /\ res' = Response("POST /organiser/create-event", 302, "/organiser", NoData)
    /\ UNCHANGED <<bookings, site_settings, sessions, ORGANISER_PASSWORDS, now, book>>

\* GET /organiser/edit-event/:id
GetEditEvent(c, eventId) ==
    /\ res' = IF ~requireAuth(sessions[c])
              THEN RedirectToLogin("GET /organiser/edit-event/:id")
              ELSE IF eventId \notin DOMAIN events
              THEN Response("GET /organiser/edit-event/:id", 404, "Event not found", NoData)
              ELSE Response("GET /organiser/edit-event/:id", 200, "edit-event.ejs",
                            [event_id |-> eventId,
                             event_date |-> formatDateForInput(events[eventId].event_date)])
    /\ UNCHANGED <<db, sessions, ORGANISER_PASSWORDS, now, book>>

\* An edit-event update that also returns the event to draft.
editQueryResettingStatus(row, body) ==
    [row EXCEPT !.title = body.title.s,
                !.description = body.description.s,
                !.event_date = formatDateForDatabase(body.event_date).s,
                !.full_price_tickets = numericOrZero(body.full_price_tickets),
                !.full_price_cost = numericOrZero(body.full_price_cost),
                !.concession_tickets = numericOrZero(body.concession_tickets),
                !.concession_cost = numericOrZero(body.concession_cost),
                !.status = "draft",
                !.last_modified = CURRENT_TIMESTAMP]

\* An edit-event update that also stamps created_date.
editQueryTouchingCreated(row, body) ==
    [row EXCEPT !.title = body.title.s,
                !.description = body.description.s,
                !.event_date = formatDateForDatabase(body.event_date).s,
                !.full_price_tickets = numericOrZero(body.full_price_tickets),
                !.full_price_cost = numericOrZero(body.full_price_cost),
                !.concession_tickets = numericOrZero(body.concession_tickets),
                !.concession_cost = numericOrZero(body.concession_cost),
                !.created_date = CURRENT_TIMESTAMP,
                !.last_modified = CURRENT_TIMESTAMP]

\* The row UPDATE events SET title = ?, ..., last_modified = CURRENT_TIMESTAMP
\* leaves in place of the row it matches.
editQuery(row, body) ==
    [row EXCEPT !.title = body.title.s,
                !.description = body.description.s,
                !.event_date = formatDateForDatabase(body.event_date).s,
                !.full_price_tickets = numericOrZero(body.full_price_tickets),
                !.full_price_cost = numericOrZero(body.full_price_cost),
                !.concession_tickets = numericOrZero(body.concession_tickets),
                !.concession_cost = numericOrZero(body.concession_cost),
                !.last_modified = CURRENT_TIMESTAMP]

\* POST /organiser/edit-event/:id
EditEvent(c, eventId, body) ==
    /\ IF ~requireAuth(sessions[c])
       THEN /\ res' = RedirectToLogin("POST /organiser/edit-event/:id")
            /\ UNCHANGED events
       ELSE IF RequiredMissing(body)
       THEN /\ res' = Response("POST /organiser/edit-event/:id", 400,
                               "Title, description, and event date are required", NoData)
            /\ UNCHANGED events
       ELSE \* UPDATE events SET ... WHERE event_id = ? : no row, no error
            /\ events' = [e \in DOMAIN events |->
                             IF e = eventId THEN editQuery(events[e], body)
                             ELSE events[e]]
            /\ res' = Response("POST /organiser/edit-event/:id", 302,
                               "/organiser?updated=true", NoData)
    /\ UNCHANGED <<bookings, site_settings, sqlite_sequence, sessions,
                   ORGANISER_PASSWORDS, now, book>>

\* A publish-event update without the status = 'draft' condition.
publishQueryAnyStatus(row) ==
    [row EXCEPT !.status = "published", !.published_date = CURRENT_TIMESTAMP]

\* A publish-event update that sets the status and leaves published_date.
publishQueryWithoutDate(row) ==
    IF row.status = "draft" THEN [row EXCEPT !.status = "published"] ELSE row

\* UPDATE events SET status = 'published', published_date = CURRENT_TIMESTAMP
\* WHERE event_id = ? AND status = 'draft', on the row with that id.
publishQuery(row) ==
    IF row.status = "draft"
    THEN [row EXCEPT !.status = "published", !.published_date = CURRENT_TIMESTAMP]
    ELSE row

\* POST /organiser/publish-event/:id
PublishEvent(c, eventId) ==
    /\ IF ~requireAuth(sessions[c])
       THEN /\ res' = RedirectToLogin("POST /organiser/publish-event/:id")
            /\ UNCHANGED events
       ELSE \* UPDATE events SET ... WHERE event_id = ? AND status = 'draft'
            /\ events' = [e \in DOMAIN events |->
                             IF e = eventId THEN publishQuery(events[e])
                             ELSE events[e]]
            /\ res' = Response("POST /organiser/publish-event/:id", 302, "/organiser", NoData)
    /\ UNCHANGED <<bookings, site_settings, sqlite_sequence, sessions,
                   ORGANISER_PASSWORDS, now, book>>

\* A cascade that removes every booking row.
cascadeAll(eventId) == DOMAIN bookings

\* A cascade that also removes the booking rows of every older event.
cascadeOlderEvents(eventId) ==
    {b \in DOMAIN bookings : bookings[b].event_id <= eventId}

\* FOREIGN KEY (event_id) REFERENCES events(event_id) ON DELETE CASCADE: the
\* booking rows that go with a deleted event.
cascade(eventId) == BookingsOf(eventId)

\* The clock moves on by a second.
Tick ==
    /\ now < Len(Clock)
    /\ now' = now + 1
    /\ UNCHANGED <<db, sessions, ORGANISER_PASSWORDS, book, res>>

\* A delete that only matches the events of the organiser logged in.
deleteQueryOfOwnEvents(session, eventId) ==
    {e \in DOMAIN events :
        e = eventId /\ events[e].organiser_id = session.organiserId}

\* The rows DELETE FROM events WHERE event_id = ? matches for a request: the
\* statement's one parameter is req.params.id, and nothing of req.session.
deleteQuery(session, eventId) == {e \in DOMAIN events : e = eventId}

\* POST /organiser/delete-event/:id, with ON DELETE CASCADE on bookings.event_id
DeleteEvent(c, eventId) ==
    /\ IF ~requireAuth(sessions[c])
       THEN /\ res' = RedirectToLogin("POST /organiser/delete-event/:id")
            /\ UNCHANGED <<events, bookings>>
       ELSE /\ events' = [e \in DOMAIN events \ deleteQuery(sessions[c], eventId) |->
                             events[e]]
            /\ bookings' = [b \in DOMAIN bookings \
                                  UNION {cascade(e) : e \in deleteQuery(sessions[c], eventId)} |->
                               bookings[b]]
            /\ res' = Response("POST /organiser/delete-event/:id", 302, "/organiser", NoData)
    /\ UNCHANGED <<site_settings, sqlite_sequence, sessions, ORGANISER_PASSWORDS, now, book>>

(***************************************************************************)
(* Specifications.  Each draws its requests from sets small enough to      *)
(* enumerate.                                                              *)
(***************************************************************************)
\* process.env as the README's credentials configure it.
ReadmePasswords ==
    [i \in {1, 2} |-> IF i = 1 THEN Str(<<"sarah_admin_2025">>)
                               ELSE Str(<<"mike_coordinator_2025">>)]

\* Bookings and events: one organiser session, the seeded draft (2), a seeded
\* published event (3) and an id that never exists.
BookedEventIds == {2, 3, MaxEventId + 1}

ManagedEventIds == {2, 3}

ValidEventBodies ==
    { [title |-> Str(<<"Small class">>), description |-> Str(<<"Two mats">>),
       event_date |-> Str(<<"2025-07-15", "T", "10:00">>),
       full_price_tickets |-> Str(<<"2">>), full_price_cost |-> Str(<<"3">>),
       concession_tickets |-> Str(<<"1">>), concession_cost |-> Str(<<"2">>)] }

\* Bodies of POST /attendee/book/:id: one ticket; both tiers; a negative count
\* with a positive total; a negative total; nothing parsable; a blank name.
BookingRequests ==
    { [attendee_name |-> Str(<<" ", "A", "n", "n">>),
       full_price_tickets |-> Str(<<"1">>), concession_tickets |-> Undefined],
      [attendee_name |-> Str(<<" ", "A", "n", "n">>),
       full_price_tickets |-> Str(<<"2">>), concession_tickets |-> Str(<<"1">>)],
      [attendee_name |-> Str(<<" ", "A", "n", "n">>),
       full_price_tickets |-> Str(<<"-", "1">>), concession_tickets |-> Str(<<"2">>)],
      [attendee_name |-> Str(<<" ", "A", "n", "n">>),
       full_price_tickets |-> Str(<<"-", "1">>), concession_tickets |-> Str(<<"a", "b", "c">>)],
      [attendee_name |-> Str(<<" ", "A", "n", "n">>),
       full_price_tickets |-> Str(<<"a", "b", "c">>), concession_tickets |-> Undefined],
      [attendee_name |-> Str(<<" ", " ">>),
       full_price_tickets |-> Str(<<"1">>), concession_tickets |-> Undefined] }

InitBooking == Init /\ ORGANISER_PASSWORDS = ReadmePasswords

Next ==
    \/ \E eventId \in BookedEventIds, body \in BookingRequests :
          BookCheck("a1", eventId, body)
    \/ BookInsert("a1")
    \/ Login("c1", Str(<<"1">>), ReadmePasswords[1])
    \/ \E body \in ValidEventBodies : CreateEvent("c1", body)
    \/ \E eventId \in ManagedEventIds, body \in ValidEventBodies :
          EditEvent("c1", eventId, body)
    \/ \E eventId \in ManagedEventIds : PublishEvent("c1", eventId)
    \/ \E eventId \in ManagedEventIds : DeleteEvent("c1", eventId)

Spec == InitBooking /\ [][Next]_vars

\* Two booking requests in flight against the seeded published event 3 (15
\* full-price tickets, 1 booked), whose row an organiser may edit meanwhile.
RacedEventIds == {3}

RaceRequests ==
    { [attendee_name |-> Str(<<" ", "A", "n", "n">>),
       full_price_tickets |-> Str(<<"8">>), concession_tickets |-> Undefined],
      [attendee_name |-> Str(<<" ", "A", "n", "n">>),
       full_price_tickets |-> Str(<<"1">>), concession_tickets |-> Undefined],
      [attendee_name |-> Str(<<" ", "A", "n", "n">>),
       full_price_tickets |-> Str(<<"2">>), concession_tickets |-> Str(<<"1">>)] }

NextRace ==
    \/ \E a \in Attendees, eventId \in RacedEventIds, body \in RaceRequests :
          BookCheck(a, eventId, body)
    \/ \E a \in Attendees : BookInsert(a)
    \/ Login("c1", Str(<<"1">>), ReadmePasswords[1])
    \/ \E eventId \in RacedEventIds, body \in ValidEventBodies :
          EditEvent("c1", eventId, body)

SpecRace == InitBooking /\ [][NextRace]_vars

\* What attendees can see and book: every attendee route with every id, while
\* an organiser creates, publishes and deletes events.
VisibleBodies ==
    { [attendee_name |-> Str(<<" ", "A", "n", "n">>),
       full_price_tickets |-> Str(<<"1">>), concession_tickets |-> Undefined],
      [attendee_name |-> Str(<<" ", "A", "n", "n">>),
       full_price_tickets |-> Str(<<"a", "b", "c">>), concession_tickets |-> Undefined],
      [attendee_name |-> Str(<<" ", " ">>),
       full_price_tickets |-> Str(<<"1">>), concession_tickets |-> Undefined],
      [attendee_name |-> Undefined,
       full_price_tickets |-> Str(<<"1">>), concession_tickets |-> Undefined] }

NextVisibility ==
    \/ AttendeeHome
    \/ \E eventId \in EventIdParams : AttendeeEvent(eventId)
    \/ \E eventId \in EventIdParams, body \in VisibleBodies :
          BookCheck("a1", eventId, body)
    \/ BookInsert("a1")
    \/ Login("c1", Str(<<"1">>), ReadmePasswords[1])
    \/ \E body \in ValidEventBodies : CreateEvent("c1", body)
    \/ \E eventId \in EventIdParams : PublishEvent("c1", eventId)
    \/ \E eventId \in EventIdParams : DeleteEvent("c1", eventId)

SpecVisibility == InitBooking /\ [][NextVisibility]_vars

\* Sessions and the gate: two clients, every organiser route, the passwords
\* configured or absent.
AuthEventIds == {2, MaxEventId + 1}

NextAuth ==
    \/ \E c \in Clients : GetLogin(c)
    \/ \E c \in Clients, organiser_id \in OrganiserIdInputs, password \in PasswordInputs :
          Login(c, organiser_id, password)
    \/ \E c \in Clients : Logout(c)
    \/ \E c \in Clients : OrganiserHome(c)
    \/ \E c \in Clients : GetSettings(c)
    \/ \E c \in Clients, body \in SettingsBodies : PostSettings(c, body)
    \/ \E c \in Clients : GetCreateEvent(c)
    \/ \E c \in Clients, body \in EventBodies : CreateEvent(c, body)
    \/ \E c \in Clients, eventId \in AuthEventIds : GetEditEvent(c, eventId)
    \/ \E c \in Clients, eventId \in AuthEventIds, body \in EventBodies :
          EditEvent(c, eventId, body)
    \/ \E c \in Clients, eventId \in AuthEventIds : PublishEvent(c, eventId)
    \/ \E c \in Clients, eventId \in AuthEventIds : DeleteEvent(c, eventId)
    \/ AttendeeHome

SpecAuth == Init /\ [][NextAuth]_vars

\* The life of an event: one client logging in as either organiser, the
\* organiser writes with a valid and an invalid body, a booking of event 3,
\* and the clock.
LifecycleBodies ==
    {body \in EventBodies : body.full_price_cost = Undefined \/ body.title = Str(<< >>)}

LifecycleSettings ==
    { [site_name |-> Str(<<"Yoga Hub">>), site_description |-> Str(<<"Classes">>)] }

LifecycleRequests ==
    { [attendee_name |-> Str(<<" ", "A", "n", "n">>),
       full_price_tickets |-> Str(<<"1">>), concession_tickets |-> Undefined] }

EditedEventIds == {2, 3, MaxEventId + 1}

PublishedEventIds == {2, 3, MaxEventId}

NextLifecycle ==
    \/ \E i \in {1, 2} : Login("c1", Str(<<DigitChars[i + 1]>>), ReadmePasswords[i])
    \/ \E body \in LifecycleBodies : CreateEvent("c1", body)
    \/ \E eventId \in EditedEventIds, body \in LifecycleBodies :
          EditEvent("c1", eventId, body)
    \/ \E eventId \in PublishedEventIds : PublishEvent("c1", eventId)
    \/ \E eventId \in EditedEventIds : DeleteEvent("c1", eventId)
    \/ \E body \in LifecycleSettings : PostSettings("c1", body)
    \/ \E body \in LifecycleRequests : BookCheck("a1", 3, body)
    \/ BookInsert("a1")
    \/ Tick

SpecLifecycle == InitBooking /\ [][NextLifecycle]_vars

\* Availability: the event page and bookings of the two seeded published
\* events, one request at a time.
AvailabilityEventIds == {1, 3}

AvailabilityRequests ==
    { [attendee_name |-> Str(<<" ", "A", "n", "n">>),
       full_price_tickets |-> Str(<<"1">>), concession_tickets |-> Undefined],
      [attendee_name |-> Str(<<" ", "A", "n", "n">>),
       full_price_tickets |-> Str(<<"2">>), concession_tickets |-> Str(<<"1">>)],
      [attendee_name |-> Str(<<" ", "A", "n", "n">>),
       full_price_tickets |-> Undefined, concession_tickets |-> Str(<<"5">>)] }

NextAvailability ==
    \/ \E eventId \in AvailabilityEventIds : AttendeeEvent(eventId)
    \/ \E eventId \in AvailabilityEventIds, body \in AvailabilityRequests :
          BookCheck("a1", eventId, body)
    \/ BookInsert("a1")

SpecAvailability == InitBooking /\ [][NextAvailability]_vars

\* An oversold event: bookings of the seeded published event 3 while an
\* organiser edits its capacities down to 2 and 1.  The requests ask for
\* full-price tickets only, a concession ticket only, both, a negative
\* count, and nothing under a blank name.
OversoldEventIds == {3}

OversoldRequests ==
    { [attendee_name |-> Str(<<" ", "A", "n", "n">>),
       full_price_tickets |-> Str(<<"2">>), concession_tickets |-> Undefined],
      [attendee_name |-> Str(<<" ", "A", "n", "n">>),
       full_price_tickets |-> Undefined, concession_tickets |-> Str(<<"1">>)],
      [attendee_name |-> Str(<<" ", "A", "n", "n">>),
       full_price_tickets |-> Str(<<"2">>), concession_tickets |-> Str(<<"1">>)],
      [attendee_name |-> Str(<<" ", "A", "n", "n">>),
       full_price_tickets |-> Str(<<"-", "1">>), concession_tickets |-> Str(<<"1">>)],
      [attendee_name |-> Str(<<" ", " ">>),
       full_price_tickets |-> Str(<<"0">>), concession_tickets |-> Str(<<"0">>)] }

NextOversold ==
    \/ \E eventId \in OversoldEventIds, body \in OversoldRequests :
          BookCheck("a1", eventId, body)
    \/ BookInsert("a1")
    \/ Login("c1", Str(<<"1">>), ReadmePasswords[1])
    \/ \E eventId \in OversoldEventIds, body \in ValidEventBodies :
          EditEvent("c1", eventId, body)

SpecOversold == InitBooking /\ [][NextOversold]_vars

\* Two organisers: client c1 logs in as organiser 1 and c2 as organiser 2,
\* neither logs out, and both create, edit, publish and delete among the
\* seeded draft of organiser 2, the seeded event 3 of organiser 1 and the
\* next event created.
OrganiserEventIds == {2, 3, MaxEventId}

NextOrganisers ==
    \/ Login("c1", Str(<<"1">>), ReadmePasswords[1])
    \/ Login("c2", Str(<<"2">>), ReadmePasswords[2])
    \/ \E c \in Clients, body \in ValidEventBodies : CreateEvent(c, body)
    \/ \E c \in Clients, eventId \in OrganiserEventIds, body \in ValidEventBodies :
          EditEvent(c, eventId, body)
    \/ \E c \in Clients, eventId \in OrganiserEventIds : PublishEvent(c, eventId)
    \/ \E c \in Clients, eventId \in OrganiserEventIds : DeleteEvent(c, eventId)

SpecOrganisers == InitBooking /\ [][NextOrganisers]_vars

\* Requests and their responses: bookings of event 3 and of an id that never
\* exists, the attendee pages, a login with and without the password, the
\* dashboard, and the deletion of event 3 while a booking waits for its
\* insert.  node-sqlite3 calls the callback of every statement it was given,
\* so the insert of a request that passed the check is taken eventually.  A
\* request is only started while the table has room for its row.
ResponseEventIds == {3, MaxEventId + 1}

ResponseRequests ==
    { [attendee_name |-> Str(<<" ", "A", "n", "n">>),
       full_price_tickets |-> Str(<<"1">>), concession_tickets |-> Undefined],
      [attendee_name |-> Str(<<" ", "A", "n", "n">>),
       full_price_tickets |-> Str(<<"2">>), concession_tickets |-> Str(<<"1">>)],
      [attendee_name |-> Str(<<" ", "A", "n", "n">>),
       full_price_tickets |-> Undefined, concession_tickets |-> Str(<<"9">>)],
      [attendee_name |-> Str(<<" ", " ">>),
       full_price_tickets |-> Str(<<"1">>), concession_tickets |-> Undefined] }

NextResponses ==
    \/ \E eventId \in ResponseEventIds, body \in ResponseRequests :
          /\ sqlite_sequence.bookings < MaxBookingId
          /\ BookCheck("a1", eventId, body)
    \/ BookInsert("a1")
    \/ AttendeeHome
    \/ \E eventId \in ResponseEventIds : AttendeeEvent(eventId)
    \/ \E password \in {Undefined, ReadmePasswords[1]} :
          Login("c1", Str(<<"1">>), password)
    \/ OrganiserHome("c1")
    \/ \E eventId \in ResponseEventIds : DeleteEvent("c1", eventId)

SpecResponses ==
    InitBooking /\ [][NextResponses]_vars /\ WF_vars(BookInsert("a1"))

(***************************************************************************)
(* What the claims below say about a step or a state.                      *)
(***************************************************************************)
\* The last response is the confirmation of a booking that was inserted.
Confirmed ==
    res.route = "POST /attendee/book/:id" /\ res.status = 200

\* Capacity minus the sum of the tickets booked, from the tables as they are.
AvailableFull(e) == events[e].full_price_tickets - full_booked(e)

AvailableConcession(e) == events[e].concession_tickets - concession_booked(e)

\* The confirmed booking was handled alone: the event's row is the one its read
\* saw, and its bookings are those the read saw plus the new row.
HandledAlone ==
    LET e == res.data.event.event_id
    IN  /\ e \in DOMAIN events
        /\ [EventRow(e) EXCEPT !.full_booked = res.data.event.full_booked,
                               !.concession_booked = res.data.event.concession_booked]
              = res.data.event
        /\ full_booked(e) =
              res.data.event.full_booked + res.data.booking.full_price_tickets_booked
        /\ concession_booked(e) =
              res.data.event.concession_booked + res.data.booking.concession_tickets_booked

\* C1: right after a booking is inserted by a request that was handled alone (no
\* other write to its event or the event's bookings between its read and its
\* insert), neither tier of the event has more tickets booked than its capacity.
C1_SerialInsertKeepsAvailability ==
    (Confirmed /\ HandledAlone) =>
        /\ AvailableFull(res.data.event.event_id) >= 0
        /\ AvailableConcession(res.data.event.event_id) >= 0

\* C1 witness: a booking of both tiers was inserted by a request handled alone,
\* for an event whose capacity had been edited down to the tickets booked.
C1_Witness ==
    /\ Confirmed /\ HandledAlone
    /\ res.data.booking.full_price_tickets_booked > 0
    /\ res.data.booking.concession_tickets_booked > 0
    /\ AvailableFull(res.data.event.event_id) = 0
    /\ AvailableConcession(res.data.event.event_id) = 0

\* A request of attendee a passes its availability check in this step.
PassesCheck(a) == book[a].pc = "idle" /\ book'[a].pc = "insert"

\* The insert of attendee a's request runs in this step.
RunsInsert(a) == book[a].pc = "insert" /\ book'[a].pc = "idle"

\* C2: the availability read and the insert are separate, unguarded steps: the
\* read counts only the rows already in bookings (a request in flight reserves
\* nothing), and the insert of a request whose event still exists adds its row
\* whatever the availability has become.  Two requests can therefore both pass
\* the check and both insert (the state C2_Overbooked).
C2_CheckThenInsertUnguarded ==
    [][\A a \in Attendees :
          /\ PassesCheck(a) =>
                /\ book'[a].event.full_booked = full_booked(book'[a].eventId)
                /\ book'[a].event.concession_booked = concession_booked(book'[a].eventId)
                /\ book'[a].fullWanted <= AvailableFull(book'[a].eventId)
                /\ book'[a].concessionWanted <= AvailableConcession(book'[a].eventId)
                /\ bookings' = bookings
          /\ (RunsInsert(a) /\ book[a].eventId \in DOMAIN events) =>
                LET id == sqlite_sequence.bookings + 1
                IN  /\ DOMAIN bookings' = DOMAIN bookings \cup {id}
                    /\ bookings'[id].event_id = book[a].eventId
                    /\ bookings'[id].full_price_tickets_booked = book[a].fullWanted
                    /\ bookings'[id].concession_tickets_booked = book[a].concessionWanted
                    /\ \A b \in DOMAIN bookings : bookings'[b] = bookings[b]
      ]_vars

\* C2 witness: the seeded event 3 was never edited; a booking of a positive
\* number of full-price tickets was confirmed against a read that allowed it;
\* another booking of the event was inserted between that read and the insert;
\* and the full-price tickets booked now exceed the capacity.
C2_Overbooked ==
    /\ Confirmed
    /\ LET e == res.data.event.event_id
           wanted == res.data.booking.full_price_tickets_booked
       IN  /\ e \in DOMAIN events
           /\ events[e] = SeedEvents[e]
           /\ wanted > 0
           /\ wanted <= fullAvailable(res.data.event)
           /\ full_booked(e) > res.data.event.full_booked + wanted
           /\ \A b \in BookingsOf(e) : bookings[b].full_price_tickets_booked > 0
           /\ full_booked(e) > events[e].full_price_tickets

\* No event has this id, or the event is not published.
MissingOrUnpublished(eventId) ==
    eventId \notin DOMAIN events \/ events[eventId].status # "published"

\* A booking body that passes the two input validations.
ValidBooking(body) ==
    /\ body.attendee_name.t = "string" /\ trim(body.attendee_name.s) # << >>
    /\ parseIntOrZero(body.full_price_tickets)
          + parseIntOrZero(body.concession_tickets) # 0

\* C3: for an id that is missing or whose event is not published, the event page
\* answers 404, a booking with otherwise valid input answers 404 and neither
\* inserts a row nor leaves a request waiting to insert one, and the attendee
\* listing holds no row of that id.
C3_UnpublishedNeverExposed ==
    [][\A eventId \in EventIdParams :
          MissingOrUnpublished(eventId) =>
             /\ AttendeeEvent(eventId) =>
                   res'.route = "GET /attendee/event/:id" /\ res'.status = 404
             /\ \A body \in VisibleBodies :
                   (ValidBooking(body) /\ BookCheck("a1", eventId, body)) =>
                      /\ res'.route = "POST /attendee/book/:id" /\ res'.status = 404
                      /\ bookings' = bookings
                      /\ book' = book
             /\ AttendeeHome =>
                   \A row \in res'.data.events : row.event_id # eventId
      ]_vars

\* C3 witness: a booking was answered 404 while the events are the seeded
\* ones, so the request named the draft (2) or an id that has no row (4, 5).
C3_Witness ==
    /\ res.route = "POST /attendee/book/:id" /\ res.status = 404
    /\ events = SeedEvents
    /\ events[2].status = "draft"
    /\ bookings = SeedBookings

\* One of the organiser-privileged operations, issued by client c.
PrivilegedRequest(c) ==
    \/ OrganiserHome(c)
    \/ GetSettings(c)
    \/ \E body \in SettingsBodies : PostSettings(c, body)
    \/ GetCreateEvent(c)
    \/ \E body \in EventBodies : CreateEvent(c, body)
    \/ \E eventId \in AuthEventIds : GetEditEvent(c, eventId)
    \/ \E eventId \in AuthEventIds, body \in EventBodies : EditEvent(c, eventId, body)
    \/ \E eventId \in AuthEventIds : PublishEvent(c, eventId)
    \/ \E eventId \in AuthEventIds : DeleteEvent(c, eventId)

RedirectedToLogin ==
    res'.status = 302 /\ res'.body = "/organiser/login"

\* C4: an organiser-privileged operation from a client whose session is not
\* authenticated is answered with the redirect to the login page and changes
\* no table and no session; a step that changes events or site_settings is a
\* privileged operation of a client whose session is authenticated.
C4_OnlyAuthenticatedOrganisersWrite ==
    [][/\ \A c \in Clients :
             (~sessions[c].isAuthenticated /\ PrivilegedRequest(c)) =>
                RedirectedToLogin /\ UNCHANGED <<db, sessions>>
       /\ (events' # events \/ site_settings' # site_settings) =>
             \E c \in Clients :
                /\ sessions[c].isAuthenticated
                /\ PrivilegedRequest(c)
                /\ ~RedirectedToLogin
      ]_vars

\* C4 witness: a delete-event request was redirected to the login page while
\* no client is authenticated and the tables are as seeded.
C4_Witness ==
    /\ res = RedirectToLogin("POST /organiser/delete-event/:id")
    /\ \A c \in Clients : ~sessions[c].isAuthenticated
    /\ events = SeedEvents /\ bookings = SeedBookings /\ site_settings = SeedSettings

\* The session a successful login of organiser i leaves.
SessionOf(i) ==
    [isAuthenticated |-> TRUE, organiserId |-> organisers[i].organiser_id,
     organiserName |-> organisers[i].name]

LoginRerendered ==
    /\ res'.route = "POST /organiser/login" /\ res'.status = 200
    /\ res'.body = "organiser-login.ejs" /\ res'.data.error # "null"

\* C5 as stated: a login whose organiser id finds no organiser row, or whose
\* password differs from the secret configured for the organiser it finds,
\* re-renders the login page with an error and leaves every session as it
\* was; a login that establishes a session stores the fields of that row.
C5_LoginNeedsConfiguredSecret ==
    [][\A c \in Clients, organiser_id \in OrganiserIdInputs, password \in PasswordInputs :
          Login(c, organiser_id, password) =>
             IF \E i \in organiserQuery(organiser_id) : password = ORGANISER_PASSWORDS[i]
             THEN LoginRerendered \/ \E i \in organiserQuery(organiser_id) :
                                        sessions' = [sessions EXCEPT ![c] = SessionOf(i)]
             ELSE LoginRerendered /\ UNCHANGED sessions
      ]_vars

\* C6: a logout leaves its client without an authenticated session and every
\* other client's session as it was; a client without an authenticated
\* session gets one only by its own login that is answered with the redirect
\* to the dashboard, and until then each of its privileged requests is
\* redirected to the login page and changes nothing.
C6_LogoutEndsAccess ==
    [][\A c \in Clients :
          /\ Logout(c) =>
                /\ ~requireAuth(sessions'[c])
                /\ \A d \in Clients \ {c} : sessions'[d] = sessions[d]
          /\ (~sessions[c].isAuthenticated /\ sessions'[c].isAuthenticated) =>
                /\ res' = Response("POST /organiser/login", 302, "/organiser", NoData)
                /\ \E organiser_id \in OrganiserIdInputs, password \in PasswordInputs :
                      Login(c, organiser_id, password)
          /\ (~sessions[c].isAuthenticated /\ PrivilegedRequest(c)) =>
                RedirectedToLogin /\ UNCHANGED <<db, sessions>>
      ]_vars

\* C6 witness: a logout was answered, client c1 has no session and client c2
\* is still logged in as organiser 2, with an event created since the start.
C6_Witness ==
    /\ res.route = "POST /organiser/logout"
    /\ sessions["c1"] = NoSession
    /\ sessions["c2"] = SessionOf(2)
    /\ DOMAIN events # DOMAIN SeedEvents

\* C7 as stated: every booking row has a full-price count and a concession
\* count of at least 0.
C7_BookedCountsNonNegative ==
    \A b \in DOMAIN bookings :
       /\ bookings[b].full_price_tickets_booked >= 0
       /\ bookings[b].concession_tickets_booked >= 0

\* C8 as stated: every booking row holds at least one ticket in total, a
\* request with a total of zero or below having been refused.
C8_BookedTotalPositive ==
    \A b \in DOMAIN bookings :
       bookings[b].full_price_tickets_booked + bookings[b].concession_tickets_booked >= 1

\* C9: a booking request for a published event that wants more full-price
\* tickets than capacity minus booked, or more concession tickets than
\* capacity minus booked, is answered 400 and leaves events, bookings and the
\* requests in flight as they were.
C9_NotEnoughTicketsRejected ==
    [][\A eventId \in BookedEventIds, body \in BookingRequests :
          (/\ BookCheck("a1", eventId, body)
           /\ ~MissingOrUnpublished(eventId)
           /\ \/ parseIntOrZero(body.full_price_tickets) > AvailableFull(eventId)
              \/ parseIntOrZero(body.concession_tickets) > AvailableConcession(eventId))
          => /\ res'.route = "POST /attendee/book/:id" /\ res'.status = 400
             /\ UNCHANGED <<events, bookings, sqlite_sequence, book>>
      ]_vars

\* C9 witness: a booking was refused for lack of tickets while a published
\* event has a tier with fewer than two tickets left and one with none.
C9_Witness ==
    /\ res.route = "POST /attendee/book/:id" /\ res.status = 400
    /\ res.body = "Not enough tickets available"
    /\ \E e \in DOMAIN events :
          /\ events[e].status = "published"
          /\ AvailableFull(e) < 2
          /\ AvailableConcession(e) = 0

\* C10 as stated: the total_cost of an inserted row is its counts times the
\* prices the event row holds when the row is inserted.
C10_TotalCostAtInsertPrices ==
    [][\A a \in Attendees :
          (RunsInsert(a) /\ ForeignKeyHolds(book[a].eventId)) =>
             LET row == bookings'[sqlite_sequence.bookings + 1]
                 e   == events[book[a].eventId]
             IN  row.total_cost =
                    row.full_price_tickets_booked * e.full_price_cost
                    + row.concession_tickets_booked * e.concession_cost
      ]_vars

\* C10 amended: the total a request computes when it passes the check is its
\* counts times the prices of the event row at that read, and the row it
\* inserts and the confirmation it renders carry that total.
C10_TotalCostAtReadPrices ==
    [][\A a \in Attendees :
          /\ PassesCheck(a) =>
                LET r == book'[a]
                    e == events[r.eventId]
                IN  r.totalCost = r.fullWanted * e.full_price_cost
                                  + r.concessionWanted * e.concession_cost
          /\ (RunsInsert(a) /\ ForeignKeyHolds(book[a].eventId)) =>
                LET row == bookings'[sqlite_sequence.bookings + 1]
                IN  /\ row.full_price_tickets_booked = book[a].fullWanted
                    /\ row.concession_tickets_booked = book[a].concessionWanted
                    /\ row.total_cost = book[a].totalCost
                    /\ res'.data.booking.total_cost = book[a].totalCost
      ]_vars

\* C10 witness: a confirmed booking of both tiers whose total is its counts
\* times the prices read, while the event row now holds other prices.
C10_Witness ==
    /\ Confirmed
    /\ LET row  == bookings[sqlite_sequence.bookings]
           read == res.data.event
       IN  /\ row.full_price_tickets_booked > 0
           /\ row.concession_tickets_booked > 0
           /\ row.total_cost = res.data.booking.total_cost
           /\ row.total_cost = row.full_price_tickets_booked * read.full_price_cost
                               + row.concession_tickets_booked * read.concession_cost
           /\ row.event_id \in DOMAIN events
           /\ events[row.event_id].full_price_cost # read.full_price_cost
           /\ events[row.event_id].concession_cost # read.concession_cost

\* This step replaces no published_date that is set.
PublishedDateKept ==
    \A e \in DOMAIN events \cap DOMAIN events' :
       events[e].published_date # "NULL" =>
          events'[e].published_date = events[e].published_date

\* C11: a publish request for a draft event makes it published with a
\* published_date that is not null; for a published event or an id without a
\* row it leaves events as they were; and no step of any request replaces a
\* published_date that is not null.
C11_PublishedOnce ==
    [][/\ \A eventId \in PublishedEventIds :
             (requireAuth(sessions["c1"]) /\ PublishEvent("c1", eventId)) =>
                IF eventId \in DOMAIN events /\ events[eventId].status = "draft"
                THEN /\ events'[eventId].status = "published"
                     /\ events'[eventId].published_date # "NULL"
                     /\ \A e \in DOMAIN events \ {eventId} : events'[e] = events[e]
                     /\ DOMAIN events' = DOMAIN events
                ELSE events' = events
       /\ PublishedDateKept
      ]_vars

\* C11 witness: a publish request was answered in the second after the start;
\* the seeded draft 2 is published with that second as its published_date and
\* the seeded published event 3 still carries the published_date of its seed.
C11_Witness ==
    /\ res.route = "POST /organiser/publish-event/:id" /\ res.status = 302
    /\ res.body = "/organiser"
    /\ now = 2
    /\ 2 \in DOMAIN events /\ 3 \in DOMAIN events
    /\ events[2].status = "published"
    /\ events[2].published_date = Clock[2]
    /\ events[3].published_date = Clock[1]

\* Every event is a draft or published.
StatusKnown ==
    \A e \in DOMAIN events : events[e].status \in {"draft", "published"}

\* C12: every event's status is 'draft' or 'published'; an event a step adds
\* is a draft; and an event that is published before a step and still has a
\* row after it is published after it.
C12_StatusOnlyForward ==
    /\ []StatusKnown
    /\ [][/\ \A e \in DOMAIN events' \ DOMAIN events : events'[e].status = "draft"
          /\ \A e \in DOMAIN events \cap DOMAIN events' :
                events[e].status = "published" => events'[e].status = "published"
         ]_vars

\* C12 witness: an edit was answered in the second after the start, the
\* published event 3 carries that second as last_modified and is still
\* published, and the event created since is a draft.
C12_Witness ==
    /\ res.route = "POST /organiser/edit-event/:id" /\ res.status = 302
    /\ 3 \in DOMAIN events
    /\ events[3].last_modified = Clock[2]
    /\ events[3].title # SeedEvents[3].title
    /\ events[3].status = "published"
    /\ MaxEventId \in DOMAIN events
    /\ events[MaxEventId].status = "draft"

\* C13: a delete request that passes the gate leaves no event row and no
\* booking row of the event it names, and leaves every other event row and
\* the booking rows of every other event as they were.
C13_DeleteCascades ==
    [][\A eventId \in EditedEventIds :
          (requireAuth(sessions["c1"]) /\ DeleteEvent("c1", eventId)) =>
             /\ eventId \notin DOMAIN events'
             /\ \A b \in DOMAIN bookings' : bookings'[b].event_id # eventId
             /\ DOMAIN events' = DOMAIN events \ {eventId}
             /\ \A e \in DOMAIN events' : events'[e] = events[e]
             /\ DOMAIN bookings' =
                   {b \in DOMAIN bookings : bookings[b].event_id # eventId}
             /\ \A b \in DOMAIN bookings' : bookings'[b] = bookings[b]
      ]_vars

\* C13 witness: a delete was answered, event 3 is gone with its seeded booking
\* and the one made since, and the booking of event 1 is still there.
C13_Witness ==
    /\ res.route = "POST /organiser/delete-event/:id" /\ res.status = 302
    /\ res.body = "/organiser"
    /\ 3 \notin DOMAIN events
    /\ sqlite_sequence.bookings = 3
    /\ DOMAIN bookings = {1}
    /\ bookings[1] = SeedBookings[1]
    /\ 1 \in DOMAIN events /\ 2 \in DOMAIN events

\* C14: the site_settings table holds exactly one row, and its setting_id
\* is 1.
C14_OneSettingsRow ==
    DOMAIN site_settings = {1}

\* C14 witness: a settings request was answered with the redirect and the one
\* row is no longer the seeded one.
C14_Witness ==
    /\ res = Response("POST /organiser/settings", 302, "/organiser", NoData)
    /\ DOMAIN site_settings = {1}
    /\ site_settings[1] # SeedSettings[1]

\* C20: a settings request that passes the gate with both fields non-empty
\* leaves one row holding the supplied name and description; with a field
\* empty or missing it is answered 400 and site_settings is as it was.
C20_SettingsReplaced ==
    [][\A c \in Clients, body \in SettingsBodies :
          (requireAuth(sessions[c]) /\ PostSettings(c, body)) =>
             IF Falsy(body.site_name) \/ Falsy(body.site_description)
             THEN /\ res'.status = 400
                  /\ site_settings' = site_settings
             ELSE /\ DOMAIN site_settings' = {1}
                  /\ site_settings'[1] = [site_name |-> body.site_name.s,
                                          site_description |-> body.site_description.s]
      ]_vars

\* C20 witness: a settings request was refused with 400 while the row holds
\* the name and description an earlier request supplied.
C20_Witness ==
    /\ res.route = "POST /organiser/settings" /\ res.status = 400
    /\ site_settings[1] = [site_name |-> <<"Yoga Hub">>,
                           site_description |-> <<"Classes">>]

\* C15 as stated: an edit request that passes the gate with its required
\* fields present, for an id that has no event row, is answered 404 and leaves
\* events as they were.
C15_EditOfMissingEventIs404 ==
    [][\A c \in Clients, eventId \in AuthEventIds, body \in EventBodies :
          (/\ requireAuth(sessions[c])
           /\ ~RequiredMissing(body)
           /\ eventId \notin DOMAIN events
           /\ EditEvent(c, eventId, body))
          => /\ res'.status = 404
             /\ events' = events
      ]_vars

\* The body has no attendee_name, or one made of blanks only.
NameBlank(body) ==
    \/ body.attendee_name.t = "undefined"
    \/ \A i \in 1..Len(body.attendee_name.s) : body.attendee_name.s[i] = " "

\* C16: a booking request whose attendee_name is missing or empty after
\* trimming is answered 400 whatever id it names, a missing one or a draft's
\* included, and leaves the tables and the requests in flight as they were.
C16_NameCheckedFirst ==
    [][\A eventId \in EventIdParams, body \in VisibleBodies :
          (NameBlank(body) /\ BookCheck("a1", eventId, body)) =>
             /\ res'.route = "POST /attendee/book/:id" /\ res'.status = 400
             /\ UNCHANGED <<db, book>>
      ]_vars

\* C16 witness: a booking was refused for its name while no event is
\* published, so the id it named was missing or a draft's.
C16_Witness ==
    /\ res = Response("POST /attendee/book/:id", 400, "Attendee name is required", NoData)
    /\ \A e \in DOMAIN events : events[e].status = "draft"
    /\ bookings = << >>

\* C17: the event page of a published event shows, per tier, the capacity
\* minus the sum of that tier's tickets over the event's bookings; a request
\* passes the check with that availability; and the insert of a booking of
\* (f, c) tickets lowers the availability of its event by f and by c and
\* leaves the availability of every other event as it was.
C17_AvailabilityArithmetic ==
    [][/\ \A eventId \in AvailabilityEventIds :
             AttendeeEvent(eventId) =>
                /\ res'.status = 200
                /\ res'.data.full_available = AvailableFull(eventId)
                /\ res'.data.concession_available = AvailableConcession(eventId)
       /\ PassesCheck("a1") =>
             /\ fullAvailable(book'["a1"].event) = AvailableFull(book'["a1"].eventId)
             /\ concessionAvailable(book'["a1"].event)
                   = AvailableConcession(book'["a1"].eventId)
       /\ RunsInsert("a1") =>
             /\ res'.status = 200
             /\ \A e \in DOMAIN events :
                   IF e = book["a1"].eventId
                   THEN /\ AvailableFull(e)' = AvailableFull(e) - book["a1"].fullWanted
                        /\ AvailableConcession(e)'
                              = AvailableConcession(e) - book["a1"].concessionWanted
                   ELSE /\ AvailableFull(e)' = AvailableFull(e)
                        /\ AvailableConcession(e)' = AvailableConcession(e)
      ]_vars

\* C17 witness: after one more booking of one full-price ticket, the page of
\* event 3 (15 and 5 tickets, 1 and 0 booked by the seed) shows 13 and 5.
C17_Witness ==
    /\ res.route = "GET /attendee/event/:id" /\ res.status = 200
    /\ res.data.event.event_id = 3
    /\ res.data.full_available = 13
    /\ res.data.concession_available = 5
    /\ Cardinality(BookingsOf(3)) = 2

\* A body field that is missing or the empty string.
Empty(v) == v.t = "undefined" \/ Len(v.s) = 0

\* C18: a create-event request that passes the gate with title, description
\* and event_date non-empty adds exactly one event, a draft with no
\* published_date, the organiser_id of the session and 0 in each numeric
\* field the body lacks, and changes no other event; with one of the three
\* missing or empty it is answered 400 and events are as they were.
C18_CreateAddsOneDraft ==
    [][\A c \in Clients, body \in EventBodies :
          (requireAuth(sessions[c]) /\ CreateEvent(c, body)) =>
             IF Empty(body.title) \/ Empty(body.description) \/ Empty(body.event_date)
             THEN res'.status = 400 /\ events' = events
             ELSE /\ Cardinality(DOMAIN events' \ DOMAIN events) = 1
                  /\ DOMAIN events \subseteq DOMAIN events'
                  /\ \A e \in DOMAIN events : events'[e] = events[e]
                  /\ \A e \in DOMAIN events' \ DOMAIN events :
                        /\ events'[e].status = "draft"
                        /\ events'[e].published_date = "NULL"
                        /\ events'[e].organiser_id = sessions[c].organiserId
                        /\ Empty(body.full_price_tickets) => events'[e].full_price_tickets = 0
                        /\ Empty(body.full_price_cost) => events'[e].full_price_cost = 0
                        /\ Empty(body.concession_tickets) => events'[e].concession_tickets = 0
                        /\ Empty(body.concession_cost) => events'[e].concession_cost = 0
      ]_vars

\* C18 witness: a create-event request of organiser 2 was answered with the
\* redirect, and the new event is a draft of organiser 2 with one full-price
\* ticket and 0 in the three numeric fields its body lacked.
C18_Witness ==
    /\ res = Response("POST /organiser/create-event", 302, "/organiser", NoData)
    /\ MaxEventId \in DOMAIN events
    /\ events[MaxEventId].status = "draft"
    /\ events[MaxEventId].published_date = "NULL"
    /\ events[MaxEventId].organiser_id = 2
    /\ events[MaxEventId].full_price_tickets = 1
    /\ events[MaxEventId].full_price_cost = 0
    /\ events[MaxEventId].concession_tickets = 0
    /\ events[MaxEventId].concession_cost = 0

\* C19: an edit request that passes the gate with its required fields
\* present leaves the status, published_date, organiser_id and created_date
\* of the event it names, every other event and every booking row as they
\* were, and adds or removes no event; with a required field missing or empty
\* it is answered 400 and events and bookings are as they were.
C19_EditFrame ==
    [][\A eventId \in EditedEventIds, body \in LifecycleBodies :
          (requireAuth(sessions["c1"]) /\ EditEvent("c1", eventId, body)) =>
             IF Empty(body.title) \/ Empty(body.description) \/ Empty(body.event_date)
             THEN res'.status = 400 /\ events' = events /\ bookings' = bookings
             ELSE /\ DOMAIN events' = DOMAIN events
                  /\ \A e \in DOMAIN events \ {eventId} : events'[e] = events[e]
                  /\ eventId \in DOMAIN events =>
                        /\ events'[eventId].status = events[eventId].status
                        /\ events'[eventId].published_date = events[eventId].published_date
                        /\ events'[eventId].organiser_id = events[eventId].organiser_id
                        /\ events'[eventId].created_date = events[eventId].created_date
                  /\ bookings' = bookings
      ]_vars

\* C19 witness: an edit was answered in the second after the start; the
\* seeded draft 2 has a new title and that second as last_modified, and is
\* still a draft of organiser 2 created at the seed, with the seeded bookings.
C19_Witness ==
    /\ res = Response("POST /organiser/edit-event/:id", 302, "/organiser?updated=true", NoData)
    /\ 2 \in DOMAIN events
    /\ events[2].title # SeedEvents[2].title
    /\ events[2].last_modified = Clock[2]
    /\ events[2].created_date = Clock[1]
    /\ events[2].status = "draft"
    /\ events[2].published_date = "NULL"
    /\ events[2].organiser_id = 2
    /\ bookings = SeedBookings

\* The step belongs to a booking request: it moves a request between check
\* and insert, or it answers one.
BookingStep ==
    \/ book' # book
    \/ res' # res /\ res'.route = "POST /attendee/book/:id"

\* C21: a step of a booking request leaves every event row, the settings
\* row, every session and every booking row there is as they were; it adds
\* at most one booking row, for the event the request names; and unless it
\* is answered with the confirmation it changes no table at all.
C21_BookingFrame ==
    [][BookingStep =>
          /\ UNCHANGED <<events, site_settings, sessions>>
          /\ DOMAIN bookings \subseteq DOMAIN bookings'
          /\ \A b \in DOMAIN bookings : bookings'[b] = bookings[b]
          /\ Cardinality(DOMAIN bookings' \ DOMAIN bookings) <= 1
          /\ \A b \in DOMAIN bookings' \ DOMAIN bookings :
                \E a \in Attendees :
                   RunsInsert(a) /\ bookings'[b].event_id = book[a].eventId
          /\ ((\A a \in Attendees : ~RunsInsert(a)) \/ res'.status # 200) => UNCHANGED db
      ]_vars

\* C21 witness: a booking was confirmed and its row is the one added to the
\* seeded two, with the events, the settings and the sessions as seeded.
C21_Witness ==
    /\ Confirmed
    /\ DOMAIN bookings = {1, 2, 3}
    /\ bookings[1] = SeedBookings[1] /\ bookings[2] = SeedBookings[2]
    /\ bookings[3].event_id = res.data.event.event_id
    /\ events = SeedEvents
    /\ site_settings = SeedSettings
    /\ \A c \in Clients : sessions[c] = NoSession

\* C22: a booking row that is there keeps every field in every step, edits
\* of its event's prices and capacities included, and a step removes it only
\* by deleting the event it references.
C22_BookingRowsImmutable ==
    [][\A b \in DOMAIN bookings :
          IF b \in DOMAIN bookings'
          THEN bookings'[b] = bookings[b]
          ELSE /\ bookings[b].event_id \in DOMAIN events
               /\ bookings[b].event_id \notin DOMAIN events'
      ]_vars

\* C22 witness: event 3 was just edited to other capacities and prices and
\* its seeded booking row still holds the values it was inserted with.
C22_Witness ==
    /\ 3 \in DOMAIN events
    /\ events[3].full_price_tickets = 2
    /\ events[3].full_price_cost = 3
    /\ 2 \in DOMAIN bookings
    /\ bookings[2] = SeedBookings[2]
    /\ bookings[2].total_cost = 40
    /\ res.route = "POST /organiser/edit-event/:id"
    /\ res.status = 302

\* C23: for every event and each tier, the tickets booked do not exceed the
\* tier's capacity.
C23_BookedWithinCapacity ==
    \A e \in DOMAIN events :
       /\ full_booked(e) <= events[e].full_price_tickets
       /\ concession_booked(e) <= events[e].concession_tickets

\* Every booking row references an event that is in the table and published.
BookingsReferencePublished ==
    \A b \in DOMAIN bookings :
       /\ bookings[b].event_id \in DOMAIN events
       /\ events[bookings[b].event_id].status = "published"

\* C24: in every state every booking row references an event that exists and
\* is published; an insert whose event was deleted after the availability
\* read is answered by the error handler and leaves the bookings as they
\* were; and an event row that appears takes an id above every id issued
\* before, so no later event takes the id a pending request has checked.
C24_BookingsReferencePublishedEvents ==
    /\ []BookingsReferencePublished
    /\ [][/\ \A a \in Attendees :
                RunsInsert(a) /\ book[a].eventId \notin DOMAIN events =>
                   /\ res'.status = 500
                   /\ bookings' = bookings
          /\ \A e \in DOMAIN events' \ DOMAIN events :
                /\ e > sqlite_sequence.events
                /\ \A a \in Attendees :
                      book[a].pc = "insert" => book[a].eventId # e
          /\ sqlite_sequence'.events >= sqlite_sequence.events
        ]_vars

\* C24 witness: a request passed the check for event 3, the event was
\* deleted and another event created before the insert, and the insert was
\* handed to the error handler without leaving a row.
C24_Witness ==
    /\ res.route = "POST /attendee/book/:id"
    /\ res.status = 500
    /\ 3 \notin DOMAIN events
    /\ MaxEventId \in DOMAIN events
    /\ events[MaxEventId].status = "draft"
    /\ \A b \in DOMAIN bookings : bookings[b].event_id # 3
    /\ sqlite_sequence.bookings = 2

\* C25: a login that supplies no password leaves every session as it was,
\* whether or not a secret is configured for the organiser id it selects.
C25_NoPasswordNoSession ==
    [][\A c \in Clients, organiser_id \in OrganiserIdInputs :
          Login(c, organiser_id, Undefined) => UNCHANGED sessions
      ]_vars

\* C26: in every state an event's status is 'published' exactly when its
\* published_date is not null.
C26_PublishedIffDated ==
    \A e \in DOMAIN events :
       events[e].status = "published" <=> events[e].published_date # "NULL"

\* C26 witness: a created event was published a second after the seed and
\* carries that date, next to the seeded draft, edited, and still undated.
C26_Witness ==
    /\ MaxEventId \in DOMAIN events
    /\ events[MaxEventId].status = "published"
    /\ events[MaxEventId].published_date = Clock[2]
    /\ 2 \in DOMAIN events
    /\ events[2].status = "draft"
    /\ events[2].published_date = "NULL"
    /\ events[2].last_modified = Clock[2]
    /\ events[1].published_date = Clock[1]

\* The event is published and the bookings of one of its tiers exceed the
\* tier's capacity.
Oversold(e) ==
    /\ IsPublished(e)
    /\ AvailableFull(e) < 0 \/ AvailableConcession(e) < 0

\* C27: while a published event has negative availability in a tier, a
\* booking request for it whose ticket counts are not negative is answered
\* 400 and goes no further, a request for the other tier only included.
C27_OversoldEventRefusesAll ==
    [][\A a \in Attendees, e \in OversoldEventIds, body \in OversoldRequests :
          /\ BookCheck(a, e, body)
          /\ Oversold(e)
          /\ parseIntOrZero(body.full_price_tickets) >= 0
          /\ parseIntOrZero(body.concession_tickets) >= 0
          => /\ res'.route = "POST /attendee/book/:id"
             /\ res'.status = 400
             /\ UNCHANGED <<db, book>>
      ]_vars

\* C27 witness: event 3 has 3 full-price tickets booked against an edited
\* capacity of 2 and a concession ticket left, no request is pending, and the
\* last request was refused for want of tickets.
C27_Witness ==
    /\ IsPublished(3)
    /\ AvailableFull(3) = -1
    /\ AvailableConcession(3) = 1
    /\ book["a1"].pc = "idle"
    /\ res.route = "POST /attendee/book/:id"
    /\ res.status = 400
    /\ res.body = "Not enough tickets available"

\* The session is authenticated as another organiser than the one event e
\* was created by.
ForeignEvent(c, e) ==
    /\ sessions[c].isAuthenticated
    /\ e \in DOMAIN events
    /\ events[e].organiser_id # sessions[c].organiserId

\* C28: a step is the edit, the publication or the deletion of an event by
\* one authenticated client exactly when it is the same request by any other
\* authenticated client; the request takes effect on an event of another
\* organiser; an event row that stays keeps its organiser_id; and a row that
\* appears carries the organiser id of the session that created it.
C28_WritesIgnoreOrganiser ==
    [][/\ \A c \in Clients, d \in Clients, e \in OrganiserEventIds :
             sessions[c].isAuthenticated /\ sessions[d].isAuthenticated =>
                /\ PublishEvent(c, e) <=> PublishEvent(d, e)
                /\ DeleteEvent(c, e) <=> DeleteEvent(d, e)
                /\ \A body \in ValidEventBodies :
                      EditEvent(c, e, body) <=> EditEvent(d, e, body)
       /\ \A c \in Clients, e \in OrganiserEventIds :
             ForeignEvent(c, e) =>
                /\ DeleteEvent(c, e) => e \notin DOMAIN events'
                /\ PublishEvent(c, e) /\ events[e].status = "draft" =>
                      events'[e].status = "published"
                /\ \A body \in ValidEventBodies :
                      EditEvent(c, e, body) =>
                         /\ events'[e].title = body.title.s
                         /\ events'[e].full_price_tickets =
                               numericOrZero(body.full_price_tickets)
       /\ \A e \in DOMAIN events \cap DOMAIN events' :
             events'[e].organiser_id = events[e].organiser_id
       /\ \A e \in DOMAIN events' \ DOMAIN events :
             \E c \in Clients :
                /\ sessions[c].isAuthenticated
                /\ events'[e].organiser_id = sessions[c].organiserId
      ]_vars

\* C28 witness: nobody ever logged in as organiser 2, and the draft that
\* organiser 2 created carries organiser 1's edit, is published, and is
\* still organiser 2's; event 3 of organiser 1 is deleted.
C28_Witness ==
    /\ sessions["c2"] = NoSession
    /\ sessions["c1"].isAuthenticated
    /\ sessions["c1"].organiserId = 1
    /\ 2 \in DOMAIN events
    /\ events[2].title = <<"Small class">>
    /\ events[2].status = "published"
    /\ events[2].organiser_id = 2
    /\ 3 \notin DOMAIN events

====
